---- MODULE Spec2Model ----
(***************************************************************************)
(* phosphonet.py: scraper of phosphonet.ca.  The script's main loop walks  *)
(* the requested uniprot ids; for each id it reads the phospho sites from  *)
(* the search page, reads the 50 x 7 kinase block of every site, turns it  *)
(* into data frame rows, sleeps between queries and batches, casts the     *)
(* accumulated frame and writes it as csv.  Nothing catches an exception,  *)
(* so the first one raised ends the interpreter.                           *)
(*                                                                         *)
(* A str is a sequence of one-character strings, so that indexing,         *)
(* slicing, str.replace and int() are computed and not assumed.  A page    *)
(* is modelled by what BeautifulSoup hands to the script: the td texts of  *)
(* the search page, the stripped strings of the prediction page.           *)
(***************************************************************************)
EXTENDS Integers, Sequences, FiniteSets, TLC

VARIABLES ids, args_bs, web, pc, id_pos, phospho_sites, idx, response,
          kinases, phospho_site_df, csv_files, log, error

vars == <<ids, args_bs, web, pc, id_pos, phospho_sites, idx, response,
          kinases, phospho_site_df, csv_files, log, error>>

\* ------------------------------------------------------------------ bounds
MaxIds == 2
MaxSites == 2
MaxBatch == 2
LongRun == 65

\* --------------------------------------------------------------- constants
num_kinases_per_phos == 50
phos_column_values == 7
DefaultBatch == 30
HttpOk == 200

\* ----------------------------------------------------------------- strings
DigitChars == <<"0", "1", "2", "3", "4", "5", "6", "7", "8", "9">>

RECURSIVE ToDigits(_)
ToDigits(n) ==
    IF n < 10 THEN <<DigitChars[n + 1]>>
    ELSE ToDigits(n \div 10) \o <<DigitChars[(n % 10) + 1]>>

IsDigit(ch) == \E d \in 1..10 : DigitChars[d] = ch

DigitValue(ch) == (CHOOSE d \in 1..10 : DigitChars[d] = ch) - 1

RECURSIVE DigitsValue(_)
DigitsValue(s) ==
    IF s = <<>> THEN 0
    ELSE 10 * DigitsValue(SubSeq(s, 1, Len(s) - 1)) + DigitValue(s[Len(s)])

RECURSIVE Strip(_)
Strip(s) ==
    IF s = <<>> THEN s
    ELSE IF Head(s) = " " THEN Strip(Tail(s))
    ELSE IF s[Len(s)] = " " THEN Strip(SubSeq(s, 1, Len(s) - 1))
    ELSE s

\* int(str) as astype('int32') applies it to every element of an object column:
\* surrounding blanks stripped, an optional sign, then one or more digits.
\* (The token alphabet of the modelled pages has no underscore and stays far
\* inside the int32 range.)
PyInt(s) ==
    LET t == Strip(s)
        signed == t # <<>> /\ Head(t) \in {"+", "-"}
        digits == IF signed THEN Tail(t) ELSE t
    IN  IF digits # <<>> /\ \A i \in 1..Len(digits) : IsDigit(digits[i])
        THEN [ok |-> TRUE,
              val |-> IF signed /\ Head(t) = "-" THEN 0 - DigitsValue(digits)
                      ELSE DigitsValue(digits)]
        ELSE [ok |-> FALSE, err |-> "ValueError"]

\* str.replace(old, new, 1): the first occurrence only.
StrReplaceFirst(s, old, new) ==
    [i \in 1..Len(s) |->
        IF s[i] = old /\ \A j \in 1..(i - 1) : s[j] # old THEN new ELSE s[i]]

\* str.replace(old, new) for one-character old and new: every occurrence.
StrReplace(s, old, new) == [i \in 1..Len(s) |-> IF s[i] = old THEN new ELSE s[i]]

HasChar(s, ch) == \E i \in 1..Len(s) : s[i] = ch

\* list.index(x), 1-based; 0 stands for the ValueError of a missing element.
ListIndex(strings, x) ==
    IF \E i \in 1..Len(strings) : strings[i] = x
    THEN CHOOSE i \in 1..Len(strings) :
            strings[i] = x /\ \A j \in 1..(i - 1) : strings[j] # x
    ELSE 0

Min(a, b) == IF a < b THEN a ELSE b

\* ----------------------------------------------------------------- website
\* What the site may answer.  A response is [status, strings]; status 0
\* stands for requests.get raising (no connection), strings for the texts
\* BeautifulSoup extracts from the body.
kinase_begin_string == <<"K", "i", "n", "a", "s", "e", " ", "1", ":">>

KinaseLabel(r) == <<"K", "i", "n", "a", "s", "e", " ">> \o ToDigits(r + 1) \o <<":">>

KinaseName(r) ==
    CASE r = 0 -> <<"E", "G", "F", "R">>
      [] r = 1 -> <<"K", "i", "n", ",", "a", "s", "e", "A">>
      [] r = 2 -> <<"a", ",", "b", ",", "c">>
      [] OTHER -> <<"P", "K">> \o ToDigits(r)

\* Token c of row r of a prediction page.  Layout "site" is the page the
\* script was written against (the second score in the last column), layout
\* "mid" carries the second score in column 4 and text in columns 5 and 6.
Cell(r, c, layout) ==
    CASE c = 0 -> KinaseLabel(r)
      [] c = 1 -> KinaseName(r)
      [] c = 2 -> <<"K">> \o ToDigits(r + 1)
      [] c = 3 -> ToDigits(950 - r)
      [] c = 4 -> IF layout = "mid" THEN ToDigits(940 - r) ELSE <<"y">>
      [] c = 5 -> IF layout = "mid" THEN <<"y">> ELSE <<"u">>
      [] c = 6 -> IF layout = "mid" THEN <<"z">> ELSE ToDigits(940 - r)

PageHeader(pre) == [i \in 1..pre |-> <<"h">> \o ToDigits(i)]

\* A prediction page: pre header tokens, then n tokens of kinase rows, the
\* first of which is the row `first` (row 0 opens with the marker).
Page(pre, first, n, layout) ==
    [status |-> HttpOk,
     strings |-> PageHeader(pre) \o
                 [k \in 1..n |-> Cell(first + ((k - 1) \div phos_column_values),
                                      (k - 1) % phos_column_values, layout)]]

BlockSize == num_kinases_per_phos * phos_column_values

NoConnection == [status |-> 0, strings |-> <<>>]
Unavailable == [status |-> 404, strings |-> <<>>]
FullPage == Page(2, 0, BlockSize, "site")
LongPage == Page(0, 0, BlockSize + 1, "site")
MidPage == Page(2, 0, BlockSize, "mid")
ShortPage == Page(2, 0, BlockSize - 1, "site")
OneRowPage == Page(1, 0, phos_column_values, "site")
NoMarkerPage == Page(2, 1, BlockSize, "site")

KinasePages ==
    {NoConnection, Unavailable, FullPage, LongPage, MidPage, ShortPage,
     OneRowPage, NoMarkerPage}

\* Site labels of a search page: <residue letter><position>.
SiteLabel(i) == <<<<"S", "Y", "T">>[(i % 3) + 1]>> \o ToDigits(844 + i)

SiteList(n) == [i \in 1..n |-> SiteLabel(i)]

\* A label of an unexpected layout, passed on unchecked.
OddLabel == <<"S", "x">>

SearchPage(labels) == [status |-> HttpOk, strings |-> labels]

SearchPages ==
    {NoConnection, Unavailable, SearchPage(<<OddLabel>>)}
        \cup {SearchPage(SiteList(n)) : n \in 0..MaxSites}

\* Two sites: one that answers every request in any of the ways above, and
\* one whose proteins all have LongRun sites with well-formed pages (the
\* script is run on it with the default batch size).
Webs ==
    {[search |-> SearchPages, kinase |-> KinasePages],
     [search |-> {SearchPage(SiteList(LongRun))}, kinase |-> {FullPage}]}

UniprotId(i) == <<<<"P", "Q", "O">>[((i - 1) % 3) + 1]>> \o ToDigits(532 + i)

IdList(n) == [i \in 1..n |-> UniprotId(i)]

\* ---------------------------------------------------------------- functions
NoResponse == [status |-> -1, strings |-> <<>>]

\* get_phospho_sites after requests.get returned `resp`: phospho_sites is bound
\* only under status 200; the return statement reads it in either case.
get_phospho_sites(resp) ==
    IF resp.status = HttpOk
    THEN [ok |-> TRUE, val |-> resp.strings]
    ELSE [ok |-> FALSE, err |-> "UnboundLocalError"]

\* A reshape that keeps the whole rows a short list fills: reshape((-1, cols))
\* of the longest prefix that is a multiple of cols.
ReshapeWholeRows(flat, rows, cols) ==
    [ok |-> TRUE,
     val |-> [r \in 1..(Len(flat) \div cols) |->
                [c \in 1..cols |-> flat[(r - 1) * cols + c]]]]

\* numpy reshape((rows, cols), order='C') of a flat list.
Reshape(flat, rows, cols) ==
    IF Len(flat) # rows * cols
    THEN [ok |-> FALSE, err |-> "ValueError"]
    ELSE [ok |-> TRUE,
          val |-> [r \in 1..rows |-> [c \in 1..cols |-> flat[(r - 1) * cols + c]]]]

\* strings[start_index + 1:end_index + 1]: the slice that leaves the marker out.
SliceAfterStart(strings, start_index, end_index) ==
    SubSeq(strings, start_index + 2, Min(end_index + 1, Len(strings)))

\* strings[start_index:end_index] with 0-based start, exclusive end: python
\* slicing clamps the end to the length of the list.
Slice(strings, start_index, end_index) ==
    SubSeq(strings, start_index + 1, Min(end_index, Len(strings)))

\* get_kinases after requests.get returned `resp`.
get_kinases(resp) ==
    IF resp.status # HttpOk
    THEN [ok |-> TRUE, val |-> <<>>]
    ELSE LET strings == resp.strings
             found == ListIndex(strings, kinase_begin_string)
             start_index == found - 1
             end_index == num_kinases_per_phos * phos_column_values + start_index
         IN  IF found = 0
             THEN [ok |-> FALSE, err |-> "ValueError"]
             ELSE Reshape(Slice(strings, start_index, end_index),
                          num_kinases_per_phos, phos_column_values)

\* ---------------------------------------------------------- data frames
\* A DataFrame is [columns, rows]; pd.DataFrame() has neither.
EmptyFrame == [columns |-> <<>>, rows |-> <<>>]

FrameIsEmpty(df) == df.columns = <<>> \/ df.rows = <<>>

\* drop([0,5,6]): the last two columns dropped instead of columns 4 and 5.
DroppedColumnsTail == <<0, 5, 6>>

DroppedColumns == <<0, 4, 5>>

RecordColumns ==
    <<"kinase_rank", "kinase_name", "kinase_id", "kinexus_score", "kinexus_score_v2">>

FrameColumns == <<"substrate", "aa", "site">> \o RecordColumns

InSeq(x, s) == \E i \in 1..Len(s) : s[i] = x

\* kinase_array_to_df: DataFrame(kinase_array) has the column labels
\* 0..width-1 (none for the empty list); drop raises KeyError for a label
\* that is not there; reset_index puts the row number first.
kinase_array_to_df(kinase_array, uniprot_id, phospho_site) ==
    LET width == IF kinase_array = <<>> THEN 0 ELSE Len(kinase_array[1])
        labels == [c \in 1..width |-> c - 1]
        kept == SelectSeq(labels, LAMBDA c : ~InSeq(c, DroppedColumns))
    IN  IF \E d \in 1..Len(DroppedColumns) : ~InSeq(DroppedColumns[d], labels)
        THEN [ok |-> FALSE, err |-> "KeyError"]
        ELSE IF Len(kept) + 1 # Len(RecordColumns)
        THEN [ok |-> FALSE, err |-> "ValueError"]
        ELSE IF phospho_site = <<>>
        THEN [ok |-> FALSE, err |-> "IndexError"]
        ELSE [ok |-> TRUE,
              val |-> [columns |-> FrameColumns,
                       rows |-> [i \in 1..Len(kinase_array) |->
                                   [substrate |-> uniprot_id,
                                    aa |-> <<Head(phospho_site)>>,
                                    site |-> Tail(phospho_site),
                                    kinase_rank |-> (i - 1) + 1,
                                    kinase_name |-> kinase_array[i][kept[1] + 1],
                                    kinase_id |-> kinase_array[i][kept[2] + 1],
                                    kinexus_score |-> kinase_array[i][kept[3] + 1],
                                    kinexus_score_v2 |-> kinase_array[i][kept[4] + 1]]]]]

\* The if/else of the loop body: the first frame is taken as it is, later
\* ones are concatenated.
Accumulate(df, new) ==
    IF FrameIsEmpty(df) THEN new
    ELSE [columns |-> df.columns, rows |-> df.rows \o new.rows]

\* typecast_phos_df: a missing column is a KeyError, a text that int()
\* rejects a ValueError.
typecast_phos_df(phos_df) ==
    LET rows == phos_df.rows
        bad(text) == ~PyInt(text).ok
    IN  IF ~InSeq("site", phos_df.columns)
        THEN [ok |-> FALSE, err |-> "KeyError"]
        ELSE IF \E i \in 1..Len(rows) : bad(rows[i].site)
        THEN [ok |-> FALSE, err |-> "ValueError"]
        ELSE IF \E i \in 1..Len(rows) :
                    bad(rows[i].kinexus_score) \/ bad(rows[i].kinexus_score_v2)
        THEN [ok |-> FALSE, err |-> "ValueError"]
        ELSE [ok |-> TRUE,
              val |-> [columns |-> phos_df.columns,
                       rows |-> [i \in 1..Len(rows) |->
                                   [rows[i] EXCEPT
                                      !.site = PyInt(@).val,
                                      !.kinase_name = StrReplace(@, ",", ";"),
                                      !.kinexus_score = PyInt(@).val,
                                      !.kinexus_score_v2 = PyInt(@).val]]]]

\* ---------------------------------------------------------------- main loop
uniprot_id == ids[id_pos]

Event(ev) == [ev |-> ev, id |-> id_pos, k |-> idx + 1]

\* The head of `for idx, site in enumerate(phospho_sites)`.
SiteLoop(sites, i) == IF i < Len(sites) THEN "get_kinases" ELSE "typecast_phos_df"

\* The head of `for uniprot_id in args.ids`.
IdLoop(pos) == IF pos <= Len(ids) THEN "get_phospho_sites" ELSE "done"

\* idx % args.bs == 0: the test on the 0-based index.
BatchDueAtIndex(i, bs) == i % bs = 0

\* Whether the batch sleep follows the query sleep: (idx+1) % args.bs == 0.
BatchDue(i, bs) == (i + 1) % bs = 0

NoError == [exc |-> "none", at |-> "none"]

Init ==
    /\ \E n \in 1..MaxIds : ids = IdList(n)
    /\ web \in Webs
    /\ args_bs \in IF web.kinase = KinasePages THEN 0..MaxBatch ELSE {DefaultBatch}
    /\ pc = "get_phospho_sites"
    /\ id_pos = 1
    /\ phospho_sites = <<>>
    /\ idx = 0
    /\ response = NoResponse
    /\ kinases = <<>>
    /\ phospho_site_df = EmptyFrame
    /\ csv_files = <<>>
    /\ log = <<>>
    /\ error = NoError

\* An exception caught around the loop body: it is reported and the script
\* goes on to write what the protein's frame holds.
RaiseAndWrite(e) ==
    /\ pc' = "to_csv"
    /\ error' = [exc |-> e, at |-> pc]

\* An exception nobody catches: the traceback is shown and the script ends.
Raise(e) ==
    /\ pc' = "crashed"
    /\ error' = [exc |-> e, at |-> pc]

\* Lines 213-214: the search request, the site list, the fresh data frame.
GetPhosphoSites ==
    /\ pc = "get_phospho_sites"
    /\ \E resp \in web.search :
         /\ response' = resp
         /\ IF resp.status = 0
            THEN /\ Raise("ConnectionError")
                 /\ UNCHANGED <<phospho_sites, phospho_site_df, idx>>
            ELSE LET got == get_phospho_sites(resp)
                 IN  IF got.ok
                     THEN /\ phospho_sites' = got.val
                          /\ phospho_site_df' = EmptyFrame
                          /\ idx' = 0
                          /\ pc' = SiteLoop(got.val, 0)
                          /\ UNCHANGED error
                     ELSE /\ Raise(got.err)
                          /\ UNCHANGED <<phospho_sites, phospho_site_df, idx>>
    /\ UNCHANGED <<ids, args_bs, web, id_pos, kinases, csv_files, log>>

\* Line 217: the prediction request of the site and its kinase block.
GetKinases ==
    /\ pc = "get_kinases"
    /\ log' = Append(log, Event("query"))
    /\ \E resp \in web.kinase :
         /\ response' = resp
         /\ IF resp.status = 0
            THEN Raise("ConnectionError") /\ UNCHANGED kinases
            ELSE LET got == get_kinases(resp)
                 IN  IF got.ok
                     THEN /\ kinases' = got.val
                          /\ pc' = "kinase_array_to_df"
                          /\ UNCHANGED error
                     ELSE Raise(got.err) /\ UNCHANGED kinases
    /\ UNCHANGED <<ids, args_bs, web, id_pos, phospho_sites, idx,
                   phospho_site_df, csv_files>>

\* Lines 218-224: the block becomes a frame, which joins the protein's frame.
KinaseArrayToDf ==
    /\ pc = "kinase_array_to_df"
    /\ LET got == kinase_array_to_df(kinases, uniprot_id, phospho_sites[idx + 1])
       IN  IF got.ok
           THEN /\ kinases' = got.val
                /\ phospho_site_df' = Accumulate(phospho_site_df, got.val)
                /\ pc' = "sleep"
                /\ UNCHANGED error
           ELSE Raise(got.err) /\ UNCHANGED <<kinases, phospho_site_df>>
    /\ UNCHANGED <<ids, args_bs, web, id_pos, phospho_sites, idx, response,
                   csv_files, log>>

\* Lines 231-232: the sleep after every query, then the batch test.
Sleep ==
    /\ pc = "sleep"
    /\ log' = Append(log, Event("sleep"))
    /\ IF args_bs = 0
       THEN Raise("ZeroDivisionError") /\ UNCHANGED idx
       ELSE IF BatchDue(idx, args_bs)
       THEN pc' = "batch_sleep" /\ UNCHANGED <<idx, error>>
       ELSE /\ idx' = idx + 1
            /\ pc' = SiteLoop(phospho_sites, idx + 1)
            /\ UNCHANGED error
    /\ UNCHANGED <<ids, args_bs, web, id_pos, phospho_sites, response, kinases,
                   phospho_site_df, csv_files>>

\* Lines 233-234: the sleep between batches.
BatchSleep ==
    /\ pc = "batch_sleep"
    /\ log' = Append(log, Event("batch"))
    /\ idx' = idx + 1
    /\ pc' = SiteLoop(phospho_sites, idx + 1)
    /\ UNCHANGED <<ids, args_bs, web, id_pos, phospho_sites, response, kinases,
                   phospho_site_df, csv_files, error>>

\* Line 236: the casts of the accumulated frame.
TypecastPhosDf ==
    /\ pc = "typecast_phos_df"
    /\ LET got == typecast_phos_df(phospho_site_df)
       IN  IF got.ok
           THEN /\ phospho_site_df' = got.val
                /\ pc' = "to_csv"
                /\ UNCHANGED error
           ELSE Raise(got.err) /\ UNCHANGED phospho_site_df
    /\ UNCHANGED <<ids, args_bs, web, id_pos, phospho_sites, idx, response,
                   kinases, csv_files, log>>

\* Lines 242-244: the frame is written under the protein's name; the outer
\* loop takes the next id.
ToCsv ==
    /\ pc = "to_csv"
    /\ csv_files' = Append(csv_files,
                           [id |-> id_pos, name |-> uniprot_id,
                            columns |-> phospho_site_df.columns,
                            rows |-> phospho_site_df.rows])
    /\ id_pos' = id_pos + 1
    /\ pc' = IdLoop(id_pos + 1)
    /\ UNCHANGED <<ids, args_bs, web, phospho_sites, idx, response, kinases,
                   phospho_site_df, log, error>>

Next ==
    \/ GetPhosphoSites
    \/ GetKinases
    \/ KinaseArrayToDf
    \/ Sleep
    \/ BatchSleep
    \/ TypecastPhosDf
    \/ ToCsv

Spec == Init /\ [][Next]_vars

\* ------------------------------------------------------------------ claims
FilesOf(pos) == {j \in 1..Len(csv_files) : csv_files[j].id = pos}

\* C1: a failure while one protein is processed does not abort the run: as
\* long as requested proteins remain after the failed one, the run goes on.
C1_RunGoesOnAfterFailure ==
    (error.exc # "none" /\ id_pos < Len(ids)) => ENABLED Next

\* The response in `response` answers the search request of the protein.
SearchAnswered ==
    \/ error.at = "get_phospho_sites"
    \/ pc \in {"get_kinases", "typecast_phos_df"} /\ idx = 0

\* C2: a search request answered with a non-success status yields the empty
\* site list and no failure.
C2_UnavailableSearchGivesNoSites ==
    (SearchAnswered /\ response.status \notin {HttpOk, 0})
        => (error.exc = "none" /\ phospho_sites = <<>>)

\* C3: a prediction request answered with a non-success status raises no
\* error: the site adds no row and the loop goes on with the next site.
C3_UnavailableSiteIsSkipped ==
    (response.status \notin {HttpOk, 0, -1}
        /\ (pc \in {"kinase_array_to_df", "sleep", "batch_sleep"}
              \/ error.at = "kinase_array_to_df"))
        => (error.exc = "none"
              /\ (pc # "kinase_array_to_df" => kinases.rows = <<>>))

\* C4: a protein whose search page has no site label still gets its table:
\* the cast succeeds and a file with the header and no row is written.
C4_NoSitesStillWritten ==
    (phospho_sites = <<>> /\ response.status = HttpOk /\ response.strings = <<>>)
        => CASE pc = "typecast_phos_df" -> TRUE
             [] pc = "to_csv" ->
                  phospho_site_df = [columns |-> FrameColumns, rows |-> <<>>]
             [] pc \in {"get_phospho_sites", "done"} ->
                  /\ csv_files # <<>>
                  /\ csv_files[Len(csv_files)].id = id_pos - 1
                  /\ csv_files[Len(csv_files)].columns = FrameColumns
                  /\ csv_files[Len(csv_files)].rows = <<>>
             [] OTHER -> FALSE

\* The step of kinase_array_to_df: `kinases` is the block before it and the
\* frame after it.
ToDfStep == pc = "kinase_array_to_df" /\ pc' = "sleep"

RecordsTake(second_score) ==
    /\ Len(kinases'.rows) = Len(kinases)
    /\ \A i \in 1..Len(kinases) :
         /\ kinases'.rows[i].kinase_rank = i
         /\ kinases'.rows[i].kinase_name = kinases[i][2]
         /\ kinases'.rows[i].kinase_id = kinases[i][3]
         /\ kinases'.rows[i].kinexus_score = kinases[i][4]
         /\ kinases'.rows[i].kinexus_score_v2 = kinases[i][second_score + 1]

\* C5 as stated: row i of the block [c0..c6] gives kinase_rank i+1, kinase_name
\* c1, kinase_id c2, kinexus_score c3 and kinexus_score_v2 c4.
C5_SecondScoreIsC4 == [][ToDfStep => RecordsTake(4)]_vars

\* C5 amended: row i of the block [c0..c6] gives kinase_rank i+1, kinase_name
\* c1, kinase_id c2, kinexus_score c3 and kinexus_score_v2 c6; c0, c4 and c5
\* are dropped.
C5_SecondScoreIsC6 == [][ToDfStep => RecordsTake(6)]_vars

\* Row 0 = [Kinase 1:, EGFR, K1, 950, 940, y, z] has become a record whose
\* second score is z.
C5_Witness ==
    /\ pc = "sleep"
    /\ response = MidPage
    /\ kinases.rows[1].kinase_name = <<"E", "G", "F", "R">>
    /\ kinases.rows[1].kinexus_score = <<"9", "5", "0">>
    /\ kinases.rows[1].kinexus_score_v2 = <<"z">>

\* The block in `kinases` is the BlockSize tokens of the answered page that
\* start `shift` tokens after the marker, row by row.
BlockStartsAt(shift) ==
    \E m \in 1..Len(response.strings) :
        /\ response.strings[m] = kinase_begin_string
        /\ \A j \in 1..(m - 1) : response.strings[j] # kinase_begin_string
        /\ Len(kinases) = num_kinases_per_phos
        /\ \A r \in 0..(num_kinases_per_phos - 1) :
             /\ Len(kinases[r + 1]) = phos_column_values
             /\ \A c \in 0..(phos_column_values - 1) :
                  LET at == m + shift + r * phos_column_values + c
                  IN  /\ at <= Len(response.strings)
                      /\ kinases[r + 1][c + 1] = response.strings[at]

\* The number of tokens that follow the first marker of the answered page;
\* -1 when the page has no marker.
TokensAfterMarker ==
    IF \E m \in 1..Len(response.strings) : response.strings[m] = kinase_begin_string
    THEN Len(response.strings)
           - (CHOOSE m \in 1..Len(response.strings) :
                 /\ response.strings[m] = kinase_begin_string
                 /\ \A j \in 1..(m - 1) : response.strings[j] # kinase_begin_string)
    ELSE -1

BlockReturned == pc = "kinase_array_to_df" /\ response.status = HttpOk

\* C6 as stated: the block of a successful page is the 350 tokens after the
\* marker: block[r][c] is the token at marker position + 1 + r*C + c.
C6_BlockStartsAfterMarker == BlockReturned => BlockStartsAt(1)

\* C6 amended: a successful page whose marker is followed by at least 349
\* tokens gives a block, and the block is the 350 tokens that start with the
\* marker itself: block[r][c] is the token at marker position + r*C + c, and
\* block[0][0] is the marker.
C6_BlockStartsAtMarker ==
    /\ BlockReturned => BlockStartsAt(0)
    /\ (response.status = HttpOk /\ TokensAfterMarker >= BlockSize - 1)
         => error.at # "get_kinases"

C6_Witness ==
    /\ pc = "kinase_array_to_df"
    /\ response = LongPage
    /\ kinases[1][1] = kinase_begin_string
    /\ kinases[num_kinases_per_phos][phos_column_values] = response.strings[BlockSize]

RaisesBelow(least) ==
    (response.status = HttpOk /\ TokensAfterMarker >= 0 /\ TokensAfterMarker < least)
        => (pc = "crashed" /\ error = [exc |-> "ValueError", at |-> "get_kinases"])

\* C7 as stated: a page with fewer than 350 tokens after the marker, 349
\* included, makes get_kinases raise; no block is returned.
C7_RaisesBelow350After == RaisesBelow(BlockSize)

\* C7 amended: a page with fewer than 349 tokens after the marker (fewer than
\* 350 with the marker) makes get_kinases raise; no block is returned.
C7_RaisesBelow349After == RaisesBelow(BlockSize - 1)

C7_Witness ==
    /\ pc = "crashed"
    /\ response = ShortPage
    /\ TokensAfterMarker = BlockSize - 2
    /\ error.at = "get_kinases"

BatchesOf(pos) ==
    SelectSeq(log, LAMBDA e : e.ev = "batch" /\ e.id = pos)

\* C8: within one protein the batch sleep follows the k-th query exactly when
\* k is a positive multiple of the batch size, k counting from 1 for every
\* protein; it comes right after that query's own sleep and before the next
\* query.  With batch size 30 and 65 sites it is taken after the 30th and the
\* 60th query and not after the 65th.
C8_BatchSleepAtMultiples ==
    /\ \A i \in 1..Len(log) :
         LET e == log[i]
             due == args_bs > 0 /\ e.k % args_bs = 0
         IN  /\ e.ev = "query" =>
                  /\ i < Len(log) => log[i + 1] = [e EXCEPT !.ev = "sleep"]
                  /\ e.k = IF i > 1 /\ log[i - 1].id = e.id
                           THEN log[i - 1].k + 1 ELSE 1
             /\ e.ev = "sleep" =>
                  /\ i > 1 /\ log[i - 1] = [e EXCEPT !.ev = "query"]
                  /\ (due /\ i < Len(log)) => log[i + 1] = [e EXCEPT !.ev = "batch"]
                  /\ (due /\ i = Len(log)) => pc = "batch_sleep"
                  /\ (~due /\ i < Len(log)) => log[i + 1].ev = "query"
             /\ e.ev = "batch" =>
                  /\ due
                  /\ i > 1 /\ log[i - 1] = [e EXCEPT !.ev = "sleep"]
                  /\ i < Len(log) => log[i + 1].ev = "query"
    /\ (args_bs = 30 /\ Len(phospho_sites) = 65 /\ pc \in {"typecast_phos_df", "to_csv"})
         => /\ Len(BatchesOf(id_pos)) = 2
            /\ BatchesOf(id_pos)[1].k = 30
            /\ BatchesOf(id_pos)[2].k = 60

C8_Witness ==
    /\ pc = "typecast_phos_df"
    /\ id_pos = 2
    /\ args_bs = 30
    /\ Len(phospho_sites) = 65
    /\ log[Len(log)] = [ev |-> "sleep", id |-> 2, k |-> 65]
    /\ BatchesOf(2) = <<[ev |-> "batch", id |-> 2, k |-> 30],
                        [ev |-> "batch", id |-> 2, k |-> 60]>>
    /\ Len(BatchesOf(1)) = 2

\* C9: no kinase_name of a written table holds a comma: every comma of the
\* raw name is a semicolon there (Kin,aseA is written as Kin;aseA).
C9_NoCommaInWrittenNames ==
    \A j \in 1..Len(csv_files) :
        \A i \in 1..Len(csv_files[j].rows) :
            LET name == csv_files[j].rows[i].kinase_name
                raw == KinaseName(csv_files[j].rows[i].kinase_rank - 1)
            IN  /\ ~HasChar(name, ",")
                /\ Len(name) = Len(raw)
                /\ \A n \in 1..Len(raw) :
                     name[n] = IF raw[n] = "," THEN ";" ELSE raw[n]

C9_Witness ==
    /\ csv_files # <<>>
    /\ Len(csv_files[1].rows) = 2 * num_kinases_per_phos
    /\ csv_files[1].rows[2].kinase_name = <<"K", "i", "n", ";", "a", "s", "e", "A">>
    /\ csv_files[1].rows[num_kinases_per_phos + 3].kinase_name = <<"a", ";", "b", ";", "c">>

\* C10: a table is written for a protein only after all of its sites have
\* been processed and the cast has succeeded: a protein whose processing
\* raised (no marker, a block of the wrong size, a text that is no integer)
\* has no file, not even one with the rows gathered before the failure.
C10_NoFileForFailedProtein ==
    /\ error.exc # "none" => FilesOf(id_pos) = {}
    /\ pc = "to_csv" =>
         /\ error.exc = "none"
         /\ idx = Len(phospho_sites)
         /\ Len(phospho_site_df.rows) = num_kinases_per_phos * Len(phospho_sites)
    /\ \A j \in 1..Len(csv_files) :
         /\ csv_files[j].id < id_pos
         /\ Cardinality(FilesOf(csv_files[j].id)) = 1
         /\ \A i \in 1..Len(csv_files[j].rows) :
              /\ csv_files[j].rows[i].site \in Int
              /\ csv_files[j].rows[i].kinexus_score \in Int
              /\ csv_files[j].rows[i].kinexus_score_v2 \in Int
    /\ (csv_files # <<>> /\ pc \in {"get_phospho_sites", "done"})
         => /\ csv_files[Len(csv_files)].id = id_pos - 1
            /\ Len(csv_files[Len(csv_files)].rows)
                 = num_kinases_per_phos * Len(phospho_sites)

C10_Witness ==
    /\ pc = "crashed"
    /\ error = [exc |-> "ValueError", at |-> "get_kinases"]
    /\ id_pos = 2
    /\ Len(phospho_site_df.rows) = num_kinases_per_phos
    /\ FilesOf(2) = {}
    /\ FilesOf(1) # {}

====
